---- MODULE Spec2Model ----
(***************************************************************************)
(* BaseDatasetAdapter (otx/core/data/adapter/base_dataset_adapter.py):     *)
(* dataset import at construction, label preparation, label pruning,       *)
(* default label schema, full-image label and polygon conversion.          *)
(*                                                                         *)
(* Python values are modelled as follows.  A string the code tests with    *)
(* `in` (a subset name) is a sequence of one-character strings; other      *)
(* strings are TLA+ strings.  None is the string None.  A dict is a        *)
(* function whose DOMAIN is the set of keys.  A list is a sequence; list   *)
(* index i of Python is position i+1 (or Len+i+1 when i is negative).      *)
(* data_type and is_train_phase have the value "unset" until assigned.     *)
(* category_items, label_groups and label_entities are only annotated by   *)
(* __init__ (lines 77-79): the variable assigned holds the names of those  *)
(* that have been assigned, and reading one that is not in it raises       *)
(* AttributeError; the variable's value is then <<>> and is never read.    *)
(***************************************************************************)
EXTENDS Integers, Sequences, FiniteSets, TLC

VARIABLES
    pc,              \* "new", "failed" (constructor raised), "constructed"
    args,            \* the constructor's arguments (the four roots)
    world,           \* what the Datumaro calls answer for each path
    calls,           \* the Datumaro calls made so far, in order
    domain,          \* self.domain
    data_type,       \* self.data_type
    is_train_phase,  \* self.is_train_phase
    dataset,         \* self.dataset
    category_items,  \* self.category_items
    label_groups,    \* self.label_groups
    label_entities,  \* self.label_entities
    assigned,        \* which of the three attributes above have been assigned
    prunes,          \* number of remove_unused_label_entities calls made
    last             \* the last call of a method: its arguments, return value, exception

vars == <<pc, args, world, calls, domain, data_type, is_train_phase, dataset,
          category_items, label_groups, label_entities, assigned, prunes, last>>

-----------------------------------------------------------------------------
(* Bounds of the model *)

\* longest list of subsets an imported dataset reports
MaxSubsets == 2
\* longest label-category list of an imported dataset
MaxCats == 3
\* longest used_labels list passed to remove_unused_label_entities
MaxUsed == 2
\* most remove_unused_label_entities calls in one run
MaxPrunes == 2
\* longest flat coordinate list of a raw polygon annotation
MaxPoints == 4

-----------------------------------------------------------------------------
(* Python values *)

None == "None"
Unset == "unset"
NoError == "none"

\* bool(x) of an Optional[str]
Truthy(x) == x # None /\ x # ""

\* `sub in s` of two Python strings
Contains(sub, s) ==
    \E i \in 1..(Len(s) - Len(sub) + 1) : SubSeq(s, i, i + Len(sub) - 1) = sub

\* whether lst[i] of a Python list raises no IndexError
ValidIndex(lst, i) == -Len(lst) <= i /\ i < Len(lst)

\* lst[i] of a Python list, for a valid index
PyGet(lst, i) == IF i >= 0 THEN lst[i + 1] ELSE lst[Len(lst) + i + 1]

TRAINING == "TRAINING"
VALIDATION == "VALIDATION"
TESTING == "TESTING"
UNLABELED == "UNLABELED"
Subset == {TRAINING, VALIDATION, TESTING, UNLABELED}

S_train == <<"t", "r", "a", "i", "n">>
S_default == <<"d", "e", "f", "a", "u", "l", "t">>
S_val == <<"v", "a", "l">>

-----------------------------------------------------------------------------
(* The inputs: constructor arguments and the answers of Datumaro *)

TrainPath == "data/train"
ValPath == "data/val"
TestPath == "data/test"
UnlabeledPath == "data/unlabeled"
Paths == {TrainPath, ValPath, TestPath, UnlabeledPath}

RootValues(path) == {None, "", path}

TaskDomains == {"CLASSIFICATION", "DETECTION"}

\* ranked candidate lists detect_dataset may return
CandidateLists == {<<>>, <<"coco">>, <<"voc", "coco">>}

\* subset names an imported dataset may report
SubsetNames ==
    { S_train, S_val, S_default,
      <<"t", "e", "s", "t">>,
      S_train \o S_val,
      <<"m", "y">> \o S_default }

\* the lists of distinct subset names of length at most MaxSubsets
SubsetLists ==
    UNION { { s \in [1..n -> SubsetNames] : \A i, j \in 1..n : s[i] = s[j] => i = j }
            : n \in 0..MaxSubsets }

CategoryName(i) == <<"category", i>>

\* the label categories 1..n of a dataset, n of them
Items(n) == [i \in 1..n |-> [name |-> CategoryName(i)]]

Reversed(s) == [i \in 1..Len(s) |-> s[Len(s) + 1 - i]]

NoCategories == [present |-> FALSE, items |-> <<>>, label_groups |-> <<>>]

\* categories().get(AnnotationType.label, None) of an imported dataset:
\* absent, or a LabelCategories with items and label_groups
ImportCategories ==
    { NoCategories,
      [present |-> TRUE, items |-> <<>>, label_groups |-> <<>>],
      [present |-> TRUE, items |-> Items(MaxCats), label_groups |-> <<"group">>] }

LabelCategories ==
    { NoCategories }
    \cup { [present |-> TRUE, items |-> Items(n), label_groups |-> <<>>] : n \in 0..MaxCats }
    \cup { [present |-> TRUE, items |-> Reversed(Items(MaxCats)),
             label_groups |-> <<"group">>] }

DefaultCandidates == <<"coco">>

\* the answers of Datumaro: detect_dataset(path), and for import_from(path)
\* the subsets and the label categories of the imported dataset
World(tc, ts, tcat, vc, tec, tecat) ==
    [ detect |-> (TrainPath :> tc) @@ (ValPath :> vc) @@ (TestPath :> tec)
                 @@ (UnlabeledPath :> DefaultCandidates),
      subsets |-> (TrainPath :> ts) @@ [p \in Paths |-> <<>>],
      categories |-> (TrainPath :> tcat) @@ (TestPath :> tecat)
                     @@ [p \in Paths |-> NoCategories] ]

-----------------------------------------------------------------------------
(* _import_dataset *)

ALL == <<>>

\* datumaro.Environment().detect_dataset(path=path)
_detect_dataset_format(w, path) == w.detect[path]

\* whether data_candidates[0] raises no IndexError
CanSelect(data_candidates) == Len(data_candidates) > 0

\* a selection that takes the last candidate
_select_data_type_last(data_candidates) == data_candidates[Len(data_candidates)]

_select_data_type(data_candidates) == data_candidates[1]

\* DatumaroDataset.import_from(path, format=format)
import_from(w, path, format) ==
    [root |-> path, format |-> format, subset |-> ALL, categories |-> w.categories[path]]

\* datumaro_dataset.subsets().items(), in the order the importer reports them
subsets(w, datumaro_dataset) ==
    [ i \in 1..Len(w.subsets[datumaro_dataset.root]) |->
        [ k |-> w.subsets[datumaro_dataset.root][i],
          v |-> [datumaro_dataset EXCEPT !.subset = w.subsets[datumaro_dataset.root][i]] ] ]

\* dataset[key] = value
SetItem(d, key, value) == (key :> value) @@ d

DetectCall(path) == [fn |-> "detect_dataset", path |-> path, format |-> ""]
ImportCall(path, format) == [fn |-> "import_from", path |-> path, format |-> format]

\* a bucketing that tests "val" before "train" and "default"
SubsetOf_ValFirst(k) ==
    IF Contains(S_val, k) THEN VALIDATION
    ELSE IF Contains(S_train, k) \/ Contains(S_default, k) THEN TRAINING
    ELSE None

\* the key the loop stores the subset named k under, None when it stores nothing
SubsetOf(k) ==
    IF Contains(S_train, k) \/ Contains(S_default, k) THEN TRAINING
    ELSE IF Contains(S_val, k) THEN VALIDATION
    ELSE None

RECURSIVE PrepareSubsets(_, _)
\* the loop over datumaro_dataset.subsets().items()
PrepareSubsets(d, items) ==
    IF items = <<>> THEN d
    ELSE LET k == Head(items).k
             v == Head(items).v
         IN PrepareSubsets(IF SubsetOf(k) = None THEN d ELSE SetItem(d, SubsetOf(k), v),
                           Tail(items))

Raise(s, exception) == [s EXCEPT !.error = exception]

\* a validation import that keeps a validation subset found in the train import
ImportVal_KeepEmbedded(s, a, w) ==
    IF ~Truthy(a.val_data_roots) THEN s
    ELSE LET val_data_candidates == _detect_dataset_format(w, a.val_data_roots)
             s1 == [s EXCEPT !.calls = Append(@, DetectCall(a.val_data_roots))]
         IN IF ~CanSelect(val_data_candidates) THEN Raise(s1, "IndexError")
            ELSE LET val_data_type == _select_data_type(val_data_candidates)
                 IN [s1 EXCEPT
                       !.calls = Append(@, ImportCall(a.val_data_roots, val_data_type)),
                       !.dataset = IF VALIDATION \in DOMAIN @ THEN @
                                   ELSE SetItem(@, VALIDATION,
                                            import_from(w, a.val_data_roots, val_data_type))]

\* the manually defined validation root, inside the train branch
ImportVal(s, a, w) ==
    IF ~Truthy(a.val_data_roots) THEN s
    ELSE LET val_data_candidates == _detect_dataset_format(w, a.val_data_roots)
             s1 == [s EXCEPT !.calls = Append(@, DetectCall(a.val_data_roots))]
         IN IF ~CanSelect(val_data_candidates) THEN Raise(s1, "IndexError")
            ELSE LET val_data_type == _select_data_type(val_data_candidates)
                 IN [s1 EXCEPT
                       !.calls = Append(@, ImportCall(a.val_data_roots, val_data_type)),
                       !.dataset = SetItem(@, VALIDATION,
                                       import_from(w, a.val_data_roots, val_data_type))]

\* if train_data_roots: ...
ImportTrain(s, a, w) ==
    IF ~Truthy(a.train_data_roots) THEN s
    ELSE LET data_type_candidates == _detect_dataset_format(w, a.train_data_roots)
             s1 == [s EXCEPT !.calls = Append(@, DetectCall(a.train_data_roots))]
         IN IF ~CanSelect(data_type_candidates) THEN Raise(s1, "IndexError")
            ELSE LET dt == _select_data_type(data_type_candidates)
                     datumaro_dataset == import_from(w, a.train_data_roots, dt)
                     s2 == [s1 EXCEPT
                              !.data_type = dt,
                              !.calls = Append(@, ImportCall(a.train_data_roots, dt)),
                              !.dataset = PrepareSubsets(@, subsets(w, datumaro_dataset)),
                              !.is_train_phase = "True"]
                 IN ImportVal(s2, a, w)

\* a test import that leaves a train phase set by the train branch as it is
ImportTest_KeepPhase(s, a, w) ==
    IF s.error # NoError \/ ~Truthy(a.test_data_roots) THEN s
    ELSE LET test_data_candidates == _detect_dataset_format(w, a.test_data_roots)
             s1 == [s EXCEPT !.calls = Append(@, DetectCall(a.test_data_roots))]
         IN IF ~CanSelect(test_data_candidates) THEN Raise(s1, "IndexError")
            ELSE LET test_data_type == _select_data_type(test_data_candidates)
                 IN [s1 EXCEPT
                       !.calls = Append(@, ImportCall(a.test_data_roots, test_data_type)),
                       !.dataset = SetItem(@, TESTING,
                                       import_from(w, a.test_data_roots, test_data_type)),
                       !.is_train_phase = IF @ = Unset THEN "False" ELSE @]

\* if test_data_roots: ...
ImportTest(s, a, w) ==
    IF s.error # NoError \/ ~Truthy(a.test_data_roots) THEN s
    ELSE LET test_data_candidates == _detect_dataset_format(w, a.test_data_roots)
             s1 == [s EXCEPT !.calls = Append(@, DetectCall(a.test_data_roots))]
         IN IF ~CanSelect(test_data_candidates) THEN Raise(s1, "IndexError")
            ELSE LET test_data_type == _select_data_type(test_data_candidates)
                 IN [s1 EXCEPT
                       !.calls = Append(@, ImportCall(a.test_data_roots, test_data_type)),
                       !.dataset = SetItem(@, TESTING,
                                       import_from(w, a.test_data_roots, test_data_type)),
                       !.is_train_phase = "False"]

\* if unlabeled_data_roots is not None: ...
ImportUnlabeled(s, a, w) ==
    IF s.error # NoError \/ a.unlabeled_data_roots = None THEN s
    ELSE [s EXCEPT
            !.calls = Append(@, ImportCall(a.unlabeled_data_roots, "image_dir")),
            !.dataset = SetItem(@, UNLABELED,
                            import_from(w, a.unlabeled_data_roots, "image_dir"))]

\* a guard that raises only when all four roots are None
NoDataRoot_AllFour(a) ==
    /\ a.train_data_roots = None /\ a.test_data_roots = None
    /\ a.val_data_roots = None /\ a.unlabeled_data_roots = None

\* if train_data_roots is None and test_data_roots is None: raise ValueError
NoDataRoot(a) == a.train_data_roots = None /\ a.test_data_roots = None

\* the state of a new adapter when _import_dataset starts
Fresh == [dataset |-> <<>>, data_type |-> Unset, is_train_phase |-> Unset,
          calls |-> <<>>, error |-> NoError]

_import_dataset(a, w) ==
    IF NoDataRoot(a) THEN Raise(Fresh, "ValueError")
    ELSE ImportUnlabeled(ImportTest(ImportTrain(Fresh, a, w), a, w), a, w)

NoCall == [op |-> "none", error |-> NoError]

\* __init__: the state of the adapter after BaseDatasetAdapter(task_type, roots...)
Constructed(task_domain, a, w) ==
    LET r == _import_dataset(a, w)
    IN [ pc |-> IF r.error = NoError THEN "constructed" ELSE "failed",
         domain |-> task_domain,
         data_type |-> r.data_type,
         is_train_phase |-> r.is_train_phase,
         dataset |-> IF r.error = NoError THEN r.dataset ELSE <<>>,
         calls |-> r.calls,
         last |-> [op |-> "__init__", error |-> r.error] ]

-----------------------------------------------------------------------------
(* Label entities, label schema, annotations *)

\* otx.api.entities.id.ID
ID(representation) == representation

\* otx.api.entities.label.LabelEntity
LabelEntity(name, dom, is_empty, id) ==
    [name |-> name, domain |-> dom, is_empty |-> is_empty, id |-> id]

EXCLUSIVE == "EXCLUSIVE"
EMPTY_LABEL == "EMPTY_LABEL"

\* otx.api.entities.label_schema.LabelGroup
LabelGroup(name, labels, group_type) ==
    [name |-> name, labels |-> labels, group_type |-> group_type]

\* otx.api.entities.label_schema.LabelSchemaEntity()
LabelSchemaEntity == [label_groups |-> <<>>]

\* LabelSchemaEntity.add_group
add_group(label_schema, label_group) ==
    [label_schema EXCEPT !.label_groups = Append(@, label_group)]

\* Rectangle.generate_full_box()
generate_full_box == [x1 |-> 0, y1 |-> 0, x2 |-> 1, y2 |-> 1]

\* otx.api.entities.scored_label.ScoredLabel(label=...)
ScoredLabel(label) == [label |-> label]

\* otx.api.entities.annotation.Annotation(shape, labels=...)
Annotation(shape, labels) == [shape |-> shape, labels |-> labels]

\* a default schema built like the empty-label group
_generate_default_label_schema_empty(entities) ==
    add_group(LabelSchemaEntity, LabelGroup("empty", entities, EMPTY_LABEL))

_generate_default_label_schema(entities) ==
    add_group(LabelSchemaEntity, LabelGroup("labels", entities, EXCLUSIVE))

\* the subset _prepare_label_information reads the categories from
LabelSourceSubset(phase) == IF phase = "True" THEN TRAINING ELSE TESTING

\* _prepare_label_information raising exception after reading subset read
NoLabelInformation(exception, read) ==
    [error |-> exception, read |-> read,
     category_items |-> <<>>, label_groups |-> <<>>, label_entities |-> <<>>]

\* a label preparation that numbers the entities from 1
_prepare_label_information_from1(datumaro_dataset, phase, dom) ==
    IF phase = Unset
        THEN NoLabelInformation("AttributeError", "none")
    ELSE IF LabelSourceSubset(phase) \notin DOMAIN datumaro_dataset
        THEN NoLabelInformation("KeyError", LabelSourceSubset(phase))
    ELSE LET label_categories_list == datumaro_dataset[LabelSourceSubset(phase)].categories
         IN IF ~label_categories_list.present
                THEN NoLabelInformation("AttributeError", LabelSourceSubset(phase))
            ELSE [ error |-> NoError,
                   read |-> LabelSourceSubset(phase),
                   category_items |-> label_categories_list.items,
                   label_groups |-> label_categories_list.label_groups,
                   label_entities |->
                       [ n \in 1..Len(label_categories_list.items) |->
                           LabelEntity(label_categories_list.items[n].name, dom, FALSE,
                                       ID(n)) ] ]

\* the returned dict, or the exception raised
_prepare_label_information(datumaro_dataset, phase, dom) ==
    IF phase = Unset
        THEN NoLabelInformation("AttributeError", "none")
    ELSE IF LabelSourceSubset(phase) \notin DOMAIN datumaro_dataset
        THEN NoLabelInformation("KeyError", LabelSourceSubset(phase))
    ELSE LET label_categories_list == datumaro_dataset[LabelSourceSubset(phase)].categories
         IN IF ~label_categories_list.present
                THEN NoLabelInformation("AttributeError", LabelSourceSubset(phase))
            ELSE [ error |-> NoError,
                   read |-> LabelSourceSubset(phase),
                   category_items |-> label_categories_list.items,
                   label_groups |-> label_categories_list.label_groups,
                   label_entities |->
                       [ n \in 1..Len(label_categories_list.items) |->
                           LabelEntity(label_categories_list.items[n].name, dom, FALSE,
                                       ID(n - 1)) ] ]

RECURSIVE CleanLabelEntities(_, _, _)
\* the loop of remove_unused_label_entities: clean_label_entities after the
\* remaining used_labels, or the IndexError of the first invalid index
CleanLabelEntities(entities, used_labels, clean_label_entities) ==
    IF used_labels = <<>> THEN [error |-> NoError, label_entities |-> clean_label_entities]
    ELSE IF ~ValidIndex(entities, Head(used_labels))
        THEN [error |-> "IndexError", label_entities |-> entities]
    ELSE CleanLabelEntities(entities, Tail(used_labels),
             Append(clean_label_entities, PyGet(entities, Head(used_labels))))

\* a pruning that filters the list, keeping the original order
remove_unused_label_entities_filter(has_label_entities, entities, used_labels) ==
    IF used_labels = <<>> THEN [error |-> NoError, label_entities |-> <<>>]
    ELSE IF ~has_label_entities
        THEN [error |-> "AttributeError", label_entities |-> entities]
    ELSE IF \E n \in 1..Len(used_labels) : ~ValidIndex(entities, used_labels[n])
        THEN [error |-> "IndexError", label_entities |-> entities]
    ELSE [ error |-> NoError,
           label_entities |->
               SelectSeq(entities,
                   LAMBDA e : \E n \in 1..Len(used_labels) :
                                 PyGet(entities, used_labels[n]) = e) ]

\* the new self.label_entities, or the exception that leaves the attribute as
\* it was.  self.label_entities is read in the loop body only: with an empty
\* used_labels the attribute is assigned [] whether or not it existed, with a
\* non-empty one the first read raises AttributeError when it does not exist
remove_unused_label_entities(has_label_entities, entities, used_labels) ==
    IF used_labels = <<>> THEN [error |-> NoError, label_entities |-> <<>>]
    ELSE IF ~has_label_entities
        THEN [error |-> "AttributeError", label_entities |-> entities]
    ELSE CleanLabelEntities(entities, used_labels, <<>>)

\* the Annotation returned, or the exception of self.label_entities[annotation.label]:
\* AttributeError when the attribute does not exist, IndexError for a bad index
_get_label_entity(has_label_entities, entities, label) ==
    IF ~has_label_entities THEN [error |-> "AttributeError"]
    ELSE IF ~ValidIndex(entities, label) THEN [error |-> "IndexError"]
    ELSE [ error |-> NoError,
           ret |-> Annotation(generate_full_box, <<ScoredLabel(PyGet(entities, label))>>) ]

\* the schema returned, or the AttributeError of reading self.label_entities
get_label_schema(has_label_entities, entities) ==
    IF ~has_label_entities THEN [error |-> "AttributeError"]
    ELSE [error |-> NoError, ret |-> _generate_default_label_schema(entities)]

-----------------------------------------------------------------------------
(* _get_polygon_entity *)

RECURSIVE GCD(_, _)
GCD(a, b) == IF b = 0 THEN a ELSE GCD(b, a % b)

\* a / b of two ints, a >= 0 and b > 0: the quotient, as a fraction in lowest terms
TrueDiv(a, b) == [num |-> a \div GCD(a, b), den |-> b \div GCD(a, b)]

\* otx.api.entities.shapes.polygon.Point(x=..., y=...)
Point(x, y) == [x |-> x, y |-> y]

\* otx.api.entities.shapes.polygon.Polygon(points=...)
Polygon(points) == [points |-> points]

\* a range that stops before an unpaired last coordinate: range(0, len(points) - 1, 2)
PolygonRange_pairs(points) == [n \in 1..(Len(points) \div 2) |-> 2 * (n - 1)]

\* range(0, len(annotation.points), 2)
PolygonRange(points) == [n \in 1..((Len(points) + 1) \div 2) |-> 2 * (n - 1)]

RECURSIVE PolygonPoints(_, _, _, _, _)
\* the list comprehension: the Points built for the indices in range after
\* those in done, or the exception of the first index that raises one
PolygonPoints(points, width, height, range, done) ==
    IF range = <<>> THEN [error |-> NoError, points |-> done]
    ELSE IF width = 0 THEN [error |-> "ZeroDivisionError", points |-> done]
    ELSE IF ~ValidIndex(points, Head(range) + 1) THEN [error |-> "IndexError", points |-> done]
    ELSE IF height = 0 THEN [error |-> "ZeroDivisionError", points |-> done]
    ELSE PolygonPoints(points, width, height, Tail(range),
             Append(done, Point(TrueDiv(PyGet(points, Head(range)), width),
                                TrueDiv(PyGet(points, Head(range) + 1), height))))

\* the Annotation returned, or the exception raised: the points are built
\* before self.label_entities[annotation.label] is read
_get_polygon_entity(has_label_entities, entities, points, label, width, height) ==
    LET built == PolygonPoints(points, width, height, PolygonRange(points), <<>>)
    IN IF built.error # NoError THEN [error |-> built.error]
       ELSE IF ~has_label_entities THEN [error |-> "AttributeError"]
       ELSE IF ~ValidIndex(entities, label) THEN [error |-> "IndexError"]
       ELSE [ error |-> NoError,
              ret |-> Annotation(Polygon(built.points),
                                 <<ScoredLabel(PyGet(entities, label))>>) ]

-----------------------------------------------------------------------------
(* Inputs of the label operations *)

\* annotation.label of the raw annotations tried on a list: the last element's
\* negative index, the positions of the list, the first position past its end
LabelIndices(entities) == -1..Len(entities)

\* the used_labels lists tried on a list: at most MaxUsed indices, each a
\* position of the list or the first position past its end
UsedLists(entities) == UNION { [1..n -> 0..Len(entities)] : n \in 0..MaxUsed }

\* the coordinate values of the raw polygon annotations tried
Coordinates == {0, 2, 3}

\* annotation.points of the raw polygon annotations tried
PointLists == UNION { [1..n -> Coordinates] : n \in 0..MaxPoints }

\* the image widths and heights tried
Dimensions == {0, 1, 2}

-----------------------------------------------------------------------------
(* Actions *)

Init ==
    /\ pc = "new"
    /\ args = [train_data_roots |-> None, val_data_roots |-> None,
               test_data_roots |-> None, unlabeled_data_roots |-> None]
    /\ world = World(DefaultCandidates, <<>>, NoCategories, DefaultCandidates,
                     DefaultCandidates, NoCategories)
    /\ calls = <<>>
    /\ domain = Unset
    /\ data_type = Unset
    /\ is_train_phase = Unset
    /\ dataset = <<>>
    /\ category_items = <<>>
    /\ label_groups = <<>>
    /\ label_entities = <<>>
    /\ assigned = {}
    /\ prunes = 0
    /\ last = NoCall

CandidatesFor(root) == IF Truthy(root) THEN CandidateLists ELSE {DefaultCandidates}
SubsetsFor(root) == IF Truthy(root) THEN SubsetLists ELSE {<<>>}
CategoriesFor(root) == IF Truthy(root) THEN ImportCategories ELSE {NoCategories}

\* BaseDatasetAdapter(task_type, train_data_roots, val_data_roots, test_data_roots,
\*                    unlabeled_data_roots)
Construct ==
    /\ pc = "new"
    /\ \E task_domain \in TaskDomains,
          tr \in RootValues(TrainPath), va \in RootValues(ValPath),
          te \in RootValues(TestPath), un \in {None, UnlabeledPath} :
         \E tc \in CandidatesFor(tr), ts \in SubsetsFor(tr), tcat \in CategoriesFor(tr),
            vc \in CandidatesFor(va), tec \in CandidatesFor(te),
            tecat \in CategoriesFor(te) :
           LET a == [train_data_roots |-> tr, val_data_roots |-> va,
                     test_data_roots |-> te, unlabeled_data_roots |-> un]
               w == World(tc, ts, tcat, vc, tec, tecat)
           IN \E c \in {Constructed(task_domain, a, w)} :
              /\ pc' = c.pc
              /\ args' = a
              /\ world' = w
              /\ calls' = c.calls
              /\ domain' = c.domain
              /\ data_type' = c.data_type
              /\ is_train_phase' = c.is_train_phase
              /\ dataset' = c.dataset
              /\ last' = c.last
    /\ UNCHANGED <<category_items, label_groups, label_entities, assigned, prunes>>

\* the dict _prepare_label_information returns
LabelInformation(r) ==
    [category_items |-> r.category_items, label_groups |-> r.label_groups,
     label_entities |-> r.label_entities]

\* self._prepare_label_information(self.dataset): the dict is returned, no
\* attribute is assigned
PrepareLabelInformation ==
    /\ pc = "constructed"
    /\ \E r \in {_prepare_label_information(dataset, is_train_phase, domain)} :
          last' = IF r.error = NoError
                     THEN [op |-> "_prepare_label_information", error |-> NoError,
                           read |-> r.read, ret |-> LabelInformation(r)]
                     ELSE [op |-> "_prepare_label_information", error |-> r.error,
                           read |-> r.read]
    /\ UNCHANGED <<pc, args, world, calls, domain, data_type, is_train_phase, dataset,
                   category_items, label_groups, label_entities, assigned, prunes>>

\* the label derivation of a task adapter (get_otx_dataset is abstract in the
\* base class): the adapter's category items, label groups and label-entity
\* list become those self._prepare_label_information(self.dataset) returns;
\* an exception of the preparation leaves the attributes as they were
GetOtxDataset ==
    /\ pc = "constructed"
    /\ \E r \in {_prepare_label_information(dataset, is_train_phase, domain)} :
          /\ last' = [op |-> "get_otx_dataset", error |-> r.error]
          /\ IF r.error = NoError
                THEN /\ category_items' = r.category_items
                     /\ label_groups' = r.label_groups
                     /\ label_entities' = r.label_entities
                     /\ assigned' = {"category_items", "label_groups", "label_entities"}
                ELSE UNCHANGED <<category_items, label_groups, label_entities, assigned>>
    /\ UNCHANGED <<pc, args, world, calls, domain, data_type, is_train_phase, dataset,
                   prunes>>

\* self.label_entities exists
HasLabelEntities == "label_entities" \in assigned

RemoveUnusedLabelEntities ==
    /\ pc = "constructed"
    /\ prunes < MaxPrunes
    /\ \E used_labels \in UsedLists(label_entities) :
         \E r \in {remove_unused_label_entities(HasLabelEntities, label_entities,
                                                used_labels)} :
            /\ label_entities' = r.label_entities
            /\ assigned' = IF r.error = NoError THEN assigned \cup {"label_entities"}
                           ELSE assigned
            /\ last' = [op |-> "remove_unused_label_entities", error |-> r.error,
                        used_labels |-> used_labels]
    /\ prunes' = prunes + 1
    /\ UNCHANGED <<pc, args, world, calls, domain, data_type, is_train_phase, dataset,
                   category_items, label_groups>>

GetLabelEntity ==
    /\ pc = "constructed"
    /\ \E label \in LabelIndices(label_entities) :
         LET r == _get_label_entity(HasLabelEntities, label_entities, label)
         IN last' = IF r.error = NoError
                       THEN [op |-> "_get_label_entity", error |-> NoError,
                             label |-> label, ret |-> r.ret]
                       ELSE [op |-> "_get_label_entity", error |-> r.error,
                             label |-> label]
    /\ UNCHANGED <<pc, args, world, calls, domain, data_type, is_train_phase, dataset,
                   category_items, label_groups, label_entities, assigned, prunes>>

GetLabelSchema ==
    /\ pc = "constructed"
    /\ \E r \in {get_label_schema(HasLabelEntities, label_entities)} :
          last' = IF r.error = NoError
                     THEN [op |-> "get_label_schema", error |-> NoError, ret |-> r.ret]
                     ELSE [op |-> "get_label_schema", error |-> r.error]
    /\ UNCHANGED <<pc, args, world, calls, domain, data_type, is_train_phase, dataset,
                   category_items, label_groups, label_entities, assigned, prunes>>

Next == Construct \/ PrepareLabelInformation

Spec == Init /\ [][Next]_vars

\* adapters constructed from a train root or from a test root whose import
\* reports one "train" subset and the label categories cat
InitLabels ==
    \E task_domain \in TaskDomains, tr \in {None, TrainPath}, te \in {None, TestPath},
       cat \in LabelCategories :
         LET a == [train_data_roots |-> tr, val_data_roots |-> None,
                   test_data_roots |-> te, unlabeled_data_roots |-> None]
             w == World(DefaultCandidates, <<S_train>>, cat, DefaultCandidates,
                        DefaultCandidates, cat)
         IN \E c \in {Constructed(task_domain, a, w)} :
            /\ (tr = None) # (te = None)
            /\ pc = c.pc
            /\ args = a
            /\ world = w
            /\ calls = c.calls
            /\ domain = c.domain
            /\ data_type = c.data_type
            /\ is_train_phase = c.is_train_phase
            /\ dataset = c.dataset
            /\ category_items = <<>>
            /\ label_groups = <<>>
            /\ label_entities = <<>>
            /\ assigned = {}
            /\ prunes = 0
            /\ last = c.last

NextLabels ==
    \/ PrepareLabelInformation
    \/ GetOtxDataset
    \/ RemoveUnusedLabelEntities
    \/ GetLabelEntity
    \/ GetLabelSchema

SpecLabels == InitLabels /\ [][NextLabels]_vars

\* _get_polygon_entity changes no attribute, so converting again from the state
\* it returns in reaches nothing new: one conversion is taken from each state
GetPolygonEntity ==
    /\ pc = "constructed"
    /\ last.op # "_get_polygon_entity"
    /\ \E points \in PointLists, width \in Dimensions, height \in Dimensions,
          label \in LabelIndices(label_entities) :
         \E r \in {_get_polygon_entity(HasLabelEntities, label_entities, points, label,
                                       width, height)} :
            last' = IF r.error = NoError
                       THEN [op |-> "_get_polygon_entity", error |-> NoError,
                             points |-> points, width |-> width, height |-> height,
                             label |-> label, ret |-> r.ret]
                       ELSE [op |-> "_get_polygon_entity", error |-> r.error,
                             points |-> points, width |-> width, height |-> height,
                             label |-> label]
    /\ UNCHANGED <<pc, args, world, calls, domain, data_type, is_train_phase, dataset,
                   category_items, label_groups, label_entities, assigned, prunes>>

NextPolygon ==
    \/ GetOtxDataset
    \/ GetPolygonEntity

\* polygon conversion on the adapters of InitLabels, before and after their
\* label-entity list is set
SpecPolygon == InitLabels /\ [][NextPolygon]_vars

-----------------------------------------------------------------------------
(* Properties of construction (checked under Spec) *)

\* a root that was given: neither None nor the empty string
Supplied(root) == Truthy(root)

\* the constructor returned without raising
Done == pc = "constructed"

TrainNames == world.subsets[args.train_data_roots]

\* the first candidate the detector returns for root
FirstCandidate(root) == world.detect[root][1]

\* the handle of the i-th subset the import of the train root reports
TrainHandle(i) ==
    [root |-> args.train_data_roots, format |-> FirstCandidate(args.train_data_roots),
     subset |-> TrainNames[i], categories |-> world.categories[args.train_data_roots]]

\* the handle of the whole dataset imported from root
WholeHandle(root) ==
    [root |-> root, format |-> FirstCandidate(root), subset |-> ALL,
     categories |-> world.categories[root]]

StoredAs(key, handle) == key \in DOMAIN dataset /\ dataset[key] = handle

StoredNowhere(handle) == \A key \in DOMAIN dataset : dataset[key] # handle

NamesTrain(k) == Contains(S_train, k) \/ Contains(S_default, k)
NamesVal(k) == Contains(S_val, k) /\ ~NamesTrain(k)

\* C1: constructing the adapter with train root None and test root None raises
\* ValueError whatever the validation and unlabeled roots are; no Datumaro call
\* (detection or import) has been made and no subset map is returned.
C1_NoDataRootRaises ==
    pc # "new" /\ args.train_data_roots = None /\ args.test_data_roots = None
        => /\ pc = "failed"
           /\ last = [op |-> "__init__", error |-> "ValueError"]
           /\ calls = <<>>
           /\ DOMAIN dataset = {}

C1_Witness ==
    /\ pc = "failed"
    /\ last.error = "ValueError"
    /\ args.train_data_roots = None /\ args.test_data_roots = None
    /\ args.val_data_roots = ValPath /\ args.unlabeled_data_roots = UnlabeledPath

\* C2: with a train root whose import reports a subset named "...val..." and an
\* explicit validation root, the VALIDATION entry after construction is the
\* whole dataset imported from the validation root (it replaces the embedded
\* subset, in whatever order the subsets were reported) and the TRAINING entry
\* is the one the train import gave: the last reported subset whose name
\* contains "train" or "default", or no entry when there is none.
C2_ExplicitValidationOverrides ==
    /\ Done
    /\ Supplied(args.train_data_roots) /\ Supplied(args.val_data_roots)
    /\ \E i \in 1..Len(TrainNames) : Contains(S_val, TrainNames[i])
    => /\ StoredAs(VALIDATION, WholeHandle(args.val_data_roots))
       /\ \A i \in 1..Len(TrainNames) :
            /\ NamesTrain(TrainNames[i])
            /\ \A j \in (i + 1)..Len(TrainNames) : ~NamesTrain(TrainNames[j])
            => StoredAs(TRAINING, TrainHandle(i))
       /\ (\A i \in 1..Len(TrainNames) : ~NamesTrain(TrainNames[i]))
            => TRAINING \notin DOMAIN dataset

C2_Witness ==
    /\ Done
    /\ args.train_data_roots = TrainPath /\ args.val_data_roots = ValPath
    /\ TrainNames = <<S_train, S_val>>
    /\ dataset[VALIDATION].root = ValPath
    /\ dataset[TRAINING].subset = S_train

\* C3 as stated: of the subsets the train import reports (no validation root
\* given), one whose name contains "train" or equals "default" is stored as
\* TRAINING, one whose name contains "val" is stored as VALIDATION (the last
\* reported of each kind), and one whose name contains neither "train" nor
\* "val" and is not "default" is stored under no Subset.
C3_Original ==
    Done /\ Supplied(args.train_data_roots) /\ ~Supplied(args.val_data_roots)
    => \A i \in 1..Len(TrainNames) :
         LET train(k) == Contains(S_train, k) \/ k = S_default
             val(k) == Contains(S_val, k)
             later == (i + 1)..Len(TrainNames)
         IN /\ train(TrainNames[i]) /\ (\A j \in later : ~train(TrainNames[j]))
                => StoredAs(TRAINING, TrainHandle(i))
            /\ val(TrainNames[i]) /\ (\A j \in later : ~val(TrainNames[j]))
                => StoredAs(VALIDATION, TrainHandle(i))
            /\ ~train(TrainNames[i]) /\ ~val(TrainNames[i])
                => StoredNowhere(TrainHandle(i))

\* C3 (amended): of the subsets the train import reports, one whose name
\* contains "train" or contains "default" is stored as TRAINING and only there;
\* one whose name contains "val" and neither "train" nor "default" is stored as
\* VALIDATION and only there (unless a validation root is given, which replaces
\* it); of several subsets of one kind the last reported is the one stored;
\* a subset of neither kind is stored under no Subset.
C3_SubsetBuckets ==
    Done /\ Supplied(args.train_data_roots)
    => \A i \in 1..Len(TrainNames) :
         LET later == (i + 1)..Len(TrainNames)
         IN /\ NamesTrain(TrainNames[i])
                => /\ (\A j \in later : ~NamesTrain(TrainNames[j]))
                        => StoredAs(TRAINING, TrainHandle(i))
                   /\ \A key \in DOMAIN dataset :
                        dataset[key] = TrainHandle(i) => key = TRAINING
            /\ NamesVal(TrainNames[i])
                => /\ (\A j \in later : ~NamesVal(TrainNames[j]))
                      /\ ~Supplied(args.val_data_roots)
                        => StoredAs(VALIDATION, TrainHandle(i))
                   /\ \A key \in DOMAIN dataset :
                        dataset[key] = TrainHandle(i) => key = VALIDATION
            /\ ~NamesTrain(TrainNames[i]) /\ ~NamesVal(TrainNames[i])
                => StoredNowhere(TrainHandle(i))

C3_Witness ==
    /\ Done
    /\ args.train_data_roots = TrainPath
    /\ TrainNames = <<S_train \o S_val, <<"m", "y">> \o S_default>>
    /\ dataset[TRAINING].subset = <<"m", "y">> \o S_default
    /\ VALIDATION \notin DOMAIN dataset

\* C4: when a test root is supplied construction ends in test phase, also
\* when a train root is supplied too; the adapter is in train phase only when
\* a train root and no test root is supplied.  Label preparation reads the
\* categories of the TRAINING subset in train phase and of the TESTING subset
\* otherwise, so with both roots supplied the labels are those of the test root.
C4_TestPhaseWins ==
    /\ Done =>
         /\ Supplied(args.test_data_roots) => is_train_phase = "False"
         /\ is_train_phase = "True"
              => Supplied(args.train_data_roots) /\ ~Supplied(args.test_data_roots)
    /\ last.op = "_prepare_label_information" /\ is_train_phase # Unset =>
         /\ last.read = IF is_train_phase = "True" THEN TRAINING ELSE TESTING
         /\ last.error = NoError =>
              /\ last.ret.category_items = dataset[last.read].categories.items
              /\ Supplied(args.train_data_roots) /\ Supplied(args.test_data_roots)
                   => /\ last.read = TESTING
                      /\ last.ret.category_items
                           = world.categories[args.test_data_roots].items

C4_Witness ==
    /\ last.op = "_prepare_label_information" /\ last.error = NoError
    /\ args.train_data_roots = TrainPath /\ args.test_data_roots = TestPath
    /\ TRAINING \in DOMAIN dataset
    /\ world.categories[TrainPath].items = <<>>
    /\ last.ret.category_items = Items(MaxCats)
    /\ is_train_phase = "False"

\* the roots the constructor detects and imports: the train root and the test
\* root when supplied, the validation root when it and the train root are
UsedRoots ==
    { r \in {args.train_data_roots, args.test_data_roots} : Supplied(r) }
    \cup { r \in {args.val_data_roots} :
             Supplied(r) /\ Supplied(args.train_data_roots) }

\* calls holds detect_dataset(root) followed at once by import_from(root, first
\* candidate), and no other import of root
DetectedAndImported(root) ==
    /\ \E i \in 1..(Len(calls) - 1) :
         /\ calls[i] = DetectCall(root)
         /\ calls[i + 1] = ImportCall(root, FirstCandidate(root))
    /\ \A i \in 1..Len(calls) :
         calls[i].fn = "import_from" /\ calls[i].path = root
            => calls[i].format = FirstCandidate(root)

\* C5 as stated: every supplied train, validation and test root is detected
\* and imported with the first candidate (the train root's is the data
\* type), and an empty candidate list for a supplied root makes construction
\* fail without a subset map.
C5_Original ==
    LET roots == { r \in {args.train_data_roots, args.val_data_roots,
                          args.test_data_roots} : Supplied(r) }
    IN pc # "new" =>
         /\ Done =>
              /\ \A r \in roots : DetectedAndImported(r)
              /\ Supplied(args.train_data_roots)
                   => data_type = FirstCandidate(args.train_data_roots)
         /\ (\E r \in roots : world.detect[r] = <<>>)
              => pc = "failed" /\ DOMAIN dataset = {}

\* C5 (amended): every supplied train and test root, and the validation root
\* when a train root is supplied too, is detected and imported with the first
\* candidate (the train root's is the data type); an empty candidate list for
\* one of these roots makes construction fail with IndexError and no subset
\* map.  A validation root supplied without a train root is neither detected
\* nor imported.
C5_DetectAndImport ==
    pc # "new" /\ ~(args.train_data_roots = None /\ args.test_data_roots = None) =>
         /\ Done =>
              /\ \A r \in UsedRoots : DetectedAndImported(r)
              /\ Supplied(args.train_data_roots)
                   => data_type = FirstCandidate(args.train_data_roots)
         /\ (\E r \in UsedRoots : world.detect[r] = <<>>)
              => /\ pc = "failed"
                 /\ last = [op |-> "__init__", error |-> "IndexError"]
                 /\ DOMAIN dataset = {}
         /\ ~Supplied(args.train_data_roots)
              => \A i \in 1..Len(calls) : calls[i].path # args.val_data_roots

C5_Witness ==
    /\ Done
    /\ args.train_data_roots = TrainPath /\ args.val_data_roots = ValPath
    /\ args.test_data_roots = TestPath
    /\ world.detect[TrainPath] = <<"voc", "coco">>
    /\ world.detect[ValPath] = <<"coco">>
    /\ data_type = "voc"
    /\ dataset[VALIDATION].format = "coco"
    /\ Len(calls) = 6

-----------------------------------------------------------------------------
(* Properties of the label operations (checked under SpecLabels) *)

\* the label categories label preparation reads
SourceCategories ==
    dataset[IF is_train_phase = "True" THEN TRAINING ELSE TESTING].categories

\* the label entity of the category at 0-based position i of the category list
EntityOfCategory(i) ==
    [id |-> i, name |-> category_items[i + 1].name, domain |-> domain,
     is_empty |-> FALSE]

\* C6: label preparation on a source subset with N categories returns N label
\* entities; the i-th (0-based) has id i, the name of the i-th category, the
\* adapter's domain and is_empty false, so the ids are 0..N-1 in category
\* order; the category items and the label groups returned are those of the
\* source.
C6_LabelEntities ==
    last.op = "_prepare_label_information" /\ last.error = NoError =>
        /\ last.ret.category_items = SourceCategories.items
        /\ last.ret.label_groups = SourceCategories.label_groups
        /\ Len(last.ret.label_entities) = Len(SourceCategories.items)
        /\ \A i \in 0..(Len(SourceCategories.items) - 1) :
             last.ret.label_entities[i + 1] =
                 [id |-> i, name |-> SourceCategories.items[i + 1].name,
                  domain |-> domain, is_empty |-> FALSE]
        /\ { last.ret.label_entities[n].id : n \in 1..Len(last.ret.label_entities) }
             = 0..(Len(SourceCategories.items) - 1)

C6_Witness ==
    /\ last.op = "_prepare_label_information" /\ last.error = NoError
    /\ Len(last.ret.label_entities) = 3
    /\ last.ret.category_items = Reversed(Items(3))
    /\ last.ret.label_entities[1] =
           [id |-> 0, name |-> CategoryName(3), domain |-> "DETECTION",
            is_empty |-> FALSE]
    /\ last.ret.label_groups = <<"group">>

\* C7: a call remove_unused_label_entities(used) with every entry of used a
\* valid position of the list replaces self.label_entities by a list as long
\* as used whose n-th element is the old list's element at index used[n], in
\* the order of used (an adapter without a label-entity list has no valid
\* position: only the empty used list qualifies there, and gives the empty list).
C7_RemoveUnused ==
    [][ LET used == last'.used_labels
            old == label_entities
            at(u) == IF u >= 0 THEN old[u + 1] ELSE old[Len(old) + u + 1]
        IN prunes' = prunes + 1
           /\ (\A n \in 1..Len(used) : -Len(old) <= used[n] /\ used[n] < Len(old))
           => /\ last'.op = "remove_unused_label_entities"
              /\ last'.error = NoError
              /\ "label_entities" \in assigned'
              /\ Len(label_entities') = Len(used)
              /\ \A n \in 1..Len(used) : label_entities'[n] = at(used[n]) ]_vars

C7_Witness ==
    /\ last.op = "remove_unused_label_entities"
    /\ last.error = NoError
    /\ HasLabelEntities
    /\ last.used_labels = <<2, 0>>
    /\ Len(category_items) = 3 /\ prunes = 1
    /\ label_entities = <<EntityOfCategory(2), EntityOfCategory(0)>>

\* C8: on an adapter that has a label-entity list, get_label_schema returns the
\* default schema of the current self.label_entities: exactly one group, named
\* "labels", of type EXCLUSIVE, holding all the entities in list order, also
\* after pruning calls.
C8_DefaultSchema ==
    last.op = "get_label_schema" /\ HasLabelEntities =>
        /\ last.error = NoError
        /\ Len(last.ret.label_groups) = 1
        /\ last.ret.label_groups[1].name = "labels"
        /\ last.ret.label_groups[1].group_type = EXCLUSIVE
        /\ last.ret.label_groups[1].labels = label_entities

C8_Witness ==
    /\ last.op = "get_label_schema"
    /\ last.error = NoError
    /\ prunes >= 1
    /\ Len(label_entities) = 2
    /\ label_entities[1].id = 2 /\ label_entities[2].id = 0
    /\ last.ret.label_groups[1].labels[1].id = 2

\* C9 as stated: after label preparation and any pruning calls, converting a
\* raw annotation whose label index k is one of the labels kept gives an
\* Annotation labelled with the entity created for category k (id k), and that
\* entity is in exactly one group of the schema get_label_schema returns.
C9_Original ==
    /\ last.op = "_get_label_entity"
    /\ HasLabelEntities
    /\ last.label >= 0
    /\ \E n \in 1..Len(label_entities) : label_entities[n].id = last.label
    => /\ last.error = NoError
       /\ last.ret.labels = <<[label |-> EntityOfCategory(last.label)]>>
       /\ Cardinality({ g \in 1..Len(get_label_schema(TRUE, label_entities).ret.label_groups) :
              \E n \in 1..Len(get_label_schema(TRUE, label_entities).ret.label_groups[g].labels) :
                  get_label_schema(TRUE, label_entities).ret.label_groups[g].labels[n]
                      = EntityOfCategory(last.label) }) = 1

-----------------------------------------------------------------------------
(* Property of the constructed adapter (checked under Spec) *)

\* C10 as stated: after a construction that raised nothing the train-phase flag
\* is set and the subset it designates as label source (TRAINING in train
\* phase, TESTING otherwise) is a key of the subset map.
C10_Original ==
    pc = "constructed" =>
        /\ is_train_phase \in {"True", "False"}
        /\ (IF is_train_phase = "True" THEN TRAINING ELSE TESTING) \in DOMAIN dataset

-----------------------------------------------------------------------------
(* Property of polygon conversion (checked under SpecPolygon) *)

\* C11: polygon conversion of a flat coordinate list of even length 2n (with
\* non-zero width and height and a label index of the adapter's list) returns an
\* Annotation whose polygon has exactly n points in order, the j-th (0-based)
\* with x = points[2j] / width and y = points[2j+1] / height; for a coordinate
\* list of odd length the conversion raises an exception and returns no
\* Annotation.
C11_PolygonPoints ==
    last.op = "_get_polygon_entity" =>
        /\ Len(last.points) % 2 = 1 => last.error \in {"IndexError", "ZeroDivisionError"}
        /\ /\ Len(last.points) % 2 = 0
           /\ last.width # 0 /\ last.height # 0
           /\ HasLabelEntities
           /\ -Len(label_entities) <= last.label /\ last.label < Len(label_entities)
           => /\ last.error = NoError
              /\ Len(last.ret.shape.points) * 2 = Len(last.points)
              /\ \A j \in 0..(Len(last.ret.shape.points) - 1) :
                   LET point == last.ret.shape.points[j + 1]
                   IN /\ point.x.den > 0 /\ point.y.den > 0
                      /\ point.x.num * last.width = last.points[2 * j + 1] * point.x.den
                      /\ point.y.num * last.height = last.points[2 * j + 2] * point.y.den

C11_Witness ==
    /\ last.op = "_get_polygon_entity"
    /\ last.error = NoError
    /\ last.points = <<3, 2, 0, 3>>
    /\ last.width = 2 /\ last.height = 1
    /\ last.ret.shape.points =
           <<[x |-> [num |-> 3, den |-> 2], y |-> [num |-> 2, den |-> 1]],
             [x |-> [num |-> 0, den |-> 1], y |-> [num |-> 3, den |-> 1]]>>

====
